---- MODULE Spec2Model ----
(***************************************************************************)
(* A model of src/simple-app/script.js: the TodoApp controller, the        *)
(* DOMContentLoaded listener that constructs it, the Ctrl/Cmd+Shift+C      *)
(* listener and the welcome check, together with the parts of the browser  *)
(* they act on (localStorage under the key 'todoTasks', the clock, and the *)
(* DOM nodes the controller writes).                                       *)
(*                                                                         *)
(* The state holds the store (tasks, currentFilter), localStorage, the     *)
(* clock and the nodes that show the list and the counts.  What the code   *)
(* writes for feedback only is not part of the state: the focus, the add   *)
(* button's transform with its 150 ms timer, and the input's placeholder   *)
(* set by the welcome timer.  Of the welcome check, the part that can      *)
(* throw while the script loads is modelled.                               *)
(*                                                                         *)
(* JavaScript strings are sequences of one-character strings, so that      *)
(* trim, escapeHtml, Number.toString and the time label are computed       *)
(* character by character.  A stored blob is a sequence of JSON tokens;    *)
(* JSON.stringify produces the tokens and JSON.parse consumes them.        *)
(***************************************************************************)
EXTENDS Integers, Sequences, FiniteSets, TLC

(***************************************************************************)
(* Bounds of the model.                                                    *)
(***************************************************************************)
\* addTask is not offered once the list holds this many elements.
MaxTasks == 3
\* The clock advances at most this many milliseconds after StartNow.
MaxTicks == 1
\* At most this many localStorage.setItem calls fail in one session.
MaxQuotaErrors == 1

(***************************************************************************)
(* The clock.  The run starts one millisecond before a minute boundary,    *)
(* so that a single tick changes both Date.now() and the hour:minute       *)
(* label.                                                                  *)
(***************************************************************************)
MsPerMinute == 60000
MinutesPerHour == 60
HoursPerDay == 24
StartNow == MsPerMinute - 1
MaxNow == StartNow + MaxTicks

(***************************************************************************)
(* Strings.                                                                *)
(***************************************************************************)
EmptyStr == << >>

\* The characters String.prototype.trim removes (the model's alphabet has
\* one white-space character).
IsWhiteSpace(c) == c = " "

RECURSIVE trimStart(_)
trimStart(s) ==
    IF s = EmptyStr THEN EmptyStr
    ELSE IF IsWhiteSpace(Head(s)) THEN trimStart(Tail(s)) ELSE s

RECURSIVE trimEnd(_)
trimEnd(s) ==
    IF s = EmptyStr THEN EmptyStr
    ELSE IF IsWhiteSpace(s[Len(s)]) THEN trimEnd(SubSeq(s, 1, Len(s) - 1)) ELSE s

\* The input taken as typed, without trim().
trimOmitted(s) == s

\* String.prototype.trim, as addTask applies it to taskInput.value.
trim(s) == trimEnd(trimStart(s))

\* One decimal digit as a character.
DigitChar(d) == CASE d = 0 -> "0" [] d = 1 -> "1" [] d = 2 -> "2" [] d = 3 -> "3"
                  [] d = 4 -> "4" [] d = 5 -> "5" [] d = 6 -> "6" [] d = 7 -> "7"
                  [] d = 8 -> "8" [] d = 9 -> "9"

\* Number.prototype.toString of a non-negative integer, as in
\* Date.now().toString().
RECURSIVE toString(_)
toString(n) ==
    IF n < 10 THEN << DigitChar(n) >>
    ELSE toString(n \div 10) \o << DigitChar(n % 10) >>

\* A number as two digits ('2-digit').
TwoDigit(n) == << DigitChar((n \div 10) % 10), DigitChar(n % 10) >>

\* new Date().toLocaleTimeString([], {hour: '2-digit', minute: '2-digit'}) at
\* clock reading ms: the hour and minute of the day, in a 24-hour locale at
\* UTC.
toLocaleTimeString(ms) ==
    LET minuteOfDay == (ms \div MsPerMinute) % (MinutesPerHour * HoursPerDay)
    IN  TwoDigit(minuteOfDay \div MinutesPerHour) \o << ":" >>
            \o TwoDigit(minuteOfDay % MinutesPerHour)

\* escapeHtml: the innerHTML of a div whose textContent is text, i.e. text with
\* &, < and > replaced by their entities.
RECURSIVE escapeHtml(_)
escapeHtml(text) ==
    IF text = EmptyStr THEN EmptyStr
    ELSE LET c == Head(text)
             e == CASE c = "&" -> << "&", "a", "m", "p", ";" >>
                    [] c = "<" -> << "&", "l", "t", ";" >>
                    [] c = ">" -> << "&", "g", "t", ";" >>
                    [] OTHER   -> << c >>
         IN  e \o escapeHtml(Tail(text))

\* What a template literal prints for a property that is undefined.
UndefinedStr == << "u", "n", "d", "e", "f", "i", "n", "e", "d" >>

(***************************************************************************)
(* JavaScript values.  this.tasks holds whatever JSON.parse returned, so   *)
(* values carry their type.  An element of the array is a task object or,  *)
(* when the stored blob was not written by this program, a number.         *)
(***************************************************************************)
Task(id, text, completed, createdAt) ==
    [type |-> "object", id |-> id, text |-> text, completed |-> completed,
     createdAt |-> createdAt]
NumberElem(digits) == [type |-> "number", digits |-> digits]

JSArray(elems) == [type |-> "array", elems |-> elems]
JSNumber(digits) == [type |-> "number", digits |-> digits]
JSString(s) == [type |-> "string", s |-> s]
JSBoolean(b) == [type |-> "boolean", b |-> b]
JSNull == [type |-> "null"]
JSObject == [type |-> "object"]
JSUndefined == [type |-> "undefined"]
\* The result of a JSON.parse call that throws.
SyntaxError == [type |-> "SyntaxError"]

EmptyList == JSArray(<< >>)

\* The constructor without its '|| []': whatever JSON.parse returned is kept.
TruthyWithoutFallback(v) == TRUE

\* ToBoolean, as the || of the constructor applies it.
Truthy(v) ==
    CASE v.type = "array"   -> TRUE
      [] v.type = "object"  -> TRUE
      [] v.type = "number"  -> v.digits # << "0" >>
      [] v.type = "string"  -> v.s # EmptyStr
      [] v.type = "boolean" -> v.b
      [] OTHER              -> FALSE

\* Property reads on an element, as the code uses them.  A number has no own
\* properties: task.completed is undefined (falsy), task.id never === a
\* string, and a template literal prints "undefined".
completedOf(task) == IF task.type = "object" THEN task.completed ELSE FALSE
idEquals(task, taskId) == task.type = "object" /\ task.id = taskId
idText(task) == IF task.type = "object" THEN task.id ELSE UndefinedStr
createdAtText(task) == IF task.type = "object" THEN task.createdAt ELSE UndefinedStr
\* div.textContent = undefined leaves the div empty.
textOf(task) == IF task.type = "object" THEN task.text ELSE EmptyStr

(***************************************************************************)
(* JSON text, as a sequence of tokens.                                     *)
(***************************************************************************)
Punct(p) == [k |-> p, s |-> EmptyStr]
StrTok(s) == [k |-> "string", s |-> s]
NumTok(digits) == [k |-> "number", s |-> digits]
Key(name) == StrTok(name)

KeyId == << "i", "d" >>
KeyText == << "t", "e", "x", "t" >>
KeyCompleted == << "c", "o", "m", "p", "l", "e", "t", "e", "d" >>
KeyCreatedAt == << "c", "r", "e", "a", "t", "e", "d", "A", "t" >>

\* The number of tokens of a serialized task object.
TaskTokens == 17

\* JSON.stringify of one element of the array.
StringifyElem(e) ==
    IF e.type = "number" THEN << NumTok(e.digits) >>
    ELSE << Punct("{"),
            Key(KeyId), Punct(":"), StrTok(e.id), Punct(","),
            Key(KeyText), Punct(":"), StrTok(e.text), Punct(","),
            Key(KeyCompleted), Punct(":"),
                Punct(IF e.completed THEN "true" ELSE "false"), Punct(","),
            Key(KeyCreatedAt), Punct(":"), StrTok(e.createdAt),
            Punct("}") >>

RECURSIVE StringifyElems(_)
StringifyElems(elems) ==
    IF elems = << >> THEN << >>
    ELSE IF Len(elems) = 1 THEN StringifyElem(elems[1])
    ELSE StringifyElem(elems[1]) \o << Punct(",") >> \o StringifyElems(Tail(elems))

\* JSON.stringify(this.tasks); saveToLocalStorage is reached with an array only.
JSONstringify(v) == << Punct("[") >> \o StringifyElems(v.elems) \o << Punct("]") >>

\* Whether the tokens from position i on are a serialized task object.
IsTaskAt(toks, i) ==
    /\ i + TaskTokens - 1 <= Len(toks)
    /\ toks[i] = Punct("{")
    /\ toks[i + 1] = Key(KeyId)
    /\ toks[i + 2] = Punct(":")
    /\ toks[i + 3].k = "string"
    /\ toks[i + 4] = Punct(",")
    /\ toks[i + 5] = Key(KeyText)
    /\ toks[i + 6] = Punct(":")
    /\ toks[i + 7].k = "string"
    /\ toks[i + 8] = Punct(",")
    /\ toks[i + 9] = Key(KeyCompleted)
    /\ toks[i + 10] = Punct(":")
    /\ toks[i + 11].k \in {"true", "false"}
    /\ toks[i + 12] = Punct(",")
    /\ toks[i + 13] = Key(KeyCreatedAt)
    /\ toks[i + 14] = Punct(":")
    /\ toks[i + 15].k = "string"
    /\ toks[i + 16] = Punct("}")

TaskAt(toks, i) ==
    Task(toks[i + 3].s, toks[i + 7].s, toks[i + 11].k = "true", toks[i + 15].s)

\* The elements of an array from position i on, up to the closing bracket,
\* which must be the last token.
RECURSIVE ParseElems(_, _, _)
ParseElems(toks, i, acc) ==
    LET isTask == IsTaskAt(toks, i)
        isNum  == i <= Len(toks) /\ toks[i].k = "number"
        next   == IF isTask THEN i + TaskTokens ELSE i + 1
        acc2   == IF isTask THEN Append(acc, TaskAt(toks, i))
                  ELSE Append(acc, NumberElem(toks[i].s))
    IN  IF ~(isTask \/ isNum) \/ next > Len(toks) THEN SyntaxError
        ELSE IF toks[next] = Punct("]")
             THEN IF next = Len(toks) THEN JSArray(acc2) ELSE SyntaxError
        ELSE IF toks[next] = Punct(",") THEN ParseElems(toks, next + 1, acc2)
        ELSE SyntaxError

\* JSON.parse of a string.  The grammar covers what JSON.stringify writes
\* (arrays of task objects), arrays of numbers, the scalars and the empty
\* object; the blobs of the model are all in it or are no JSON at all.
JSONparseText(toks) ==
    IF toks = << >> THEN SyntaxError
    ELSE IF toks[1] = Punct("[")
         THEN IF Len(toks) = 2 /\ toks[2] = Punct("]") THEN EmptyList
              ELSE ParseElems(toks, 2, << >>)
    ELSE IF toks = << Punct("{"), Punct("}") >> THEN JSObject
    ELSE IF Len(toks) # 1 THEN SyntaxError
    ELSE CASE toks[1].k = "number" -> JSNumber(toks[1].s)
           [] toks[1].k = "string" -> JSString(toks[1].s)
           [] toks[1].k = "true"   -> JSBoolean(TRUE)
           [] toks[1].k = "false"  -> JSBoolean(FALSE)
           [] toks[1].k = "null"   -> JSNull
           [] OTHER                -> SyntaxError

(***************************************************************************)
(* localStorage: a map from keys to strings.                               *)
(***************************************************************************)
StorageKey == "todoTasks"
NoItems == << >>

\* localStorage.getItem: null when the key is absent.
getItem(storage, key) ==
    IF key \in DOMAIN storage THEN [isNull |-> FALSE, text |-> storage[key]]
    ELSE [isNull |-> TRUE, text |-> << >>]

\* !item : null and the empty string are falsy.
Falsy(item) == item.isNull \/ item.text = << >>

\* JSON.parse(item): null is first converted to the string "null".
JSONparse(item) == IF item.isNull THEN JSNull ELSE JSONparseText(item.text)

(***************************************************************************)
(* State.                                                                  *)
(***************************************************************************)
VARIABLES
    tasks,                \* this.tasks
    currentFilter,        \* this.currentFilter
    localStorage,         \* the browser's localStorage
    now,                  \* the reading of Date.now()
    listenersAttached,    \* attachEventListeners has run on an instance
    windowTodoApp,        \* window.todoApp has been assigned
    taskInputValue,       \* taskInput.value
    totalTasksText,       \* totalTasks.textContent
    completedTasksText,   \* completedTasks.textContent
    taskListHTML,         \* taskList.innerHTML, one entry per <li>
    taskListDisplay,      \* taskList.style.display
    emptyStateHidden,     \* emptyState.classList has 'hidden'
    activeButtons,        \* the filter buttons whose classList has 'active'
    lastCall,             \* the latest handler (or "load") that ran
    lastError,            \* what it threw, "none" if it returned
    lastSetItem,          \* what became of its localStorage.setItem call
    uncaught,             \* the errors reported so far in this page session
    quotaErrors           \* how many setItem calls have failed so far

storeVars == << tasks, currentFilter >>
domVars == << taskInputValue, totalTasksText, completedTasksText, taskListHTML,
              taskListDisplay, emptyStateHidden, activeButtons >>
listVars == << taskListHTML, taskListDisplay, emptyStateHidden >>
statVars == << totalTasksText, completedTasksText >>
pageVars == << listenersAttached, windowTodoApp >>
vars == << tasks, currentFilter, localStorage, now, listenersAttached,
           windowTodoApp, taskInputValue, totalTasksText, completedTasksText,
           taskListHTML, taskListDisplay, emptyStateHidden, activeButtons,
           lastCall, lastError, lastSetItem, uncaught, quotaErrors >>

(***************************************************************************)
(* Inputs.                                                                 *)
(***************************************************************************)
\* What the user may have typed into taskInput when addTask runs.
InputTexts ==
    { EmptyStr, << " ", " " >>, << "<", "b" >>, << " ", "<", "b", " " >> }

\* The three filter buttons (data-filter), and what a click event's
\* e.target.dataset.filter may be: a click that lands on an element without a
\* data-filter attribute gives undefined.
FilterNames == { "all", "active", "completed" }
FilterEventValues == FilterNames \cup { "undefined" }

\* The task of an earlier session, used in the blobs the page may start with.
OldTask(completed) ==
    Task(toString(StartNow - 1), << "o" >>, completed, toLocaleTimeString(StartNow - 1))

\* What localStorage may hold when the page is first loaded: nothing, lists
\* this program wrote, and values it did not write.
InitialStorage ==
    { NoItems }
    \cup { [todoTasks |-> JSONstringify(JSArray(l))] :
             l \in { << >>, << OldTask(TRUE) >>, << OldTask(FALSE) >> } }
    \cup { [todoTasks |-> t] :
             t \in { << >>,                                  \* the empty string
                     << Punct("[") >>,                       \* truncated JSON
                     << Punct("null") >>,
                     << NumTok(<< "0" >>) >>,
                     << NumTok(<< "5" >>) >>,
                     << Punct("{"), Punct("}") >>,
                     << Punct("["), NumTok(<< "1" >>), Punct("]") >> } }

\* The ids toggleTask and deleteTask are called with: every id a task can
\* have, the id the markup of an element without one carries, and an id no
\* task has.
TaskIds ==
    { toString(t) : t \in (StartNow - 1) .. MaxNow } \cup { UndefinedStr, << "7" >> }

(***************************************************************************)
(* Rendering.                                                              *)
(***************************************************************************)
\* getFilteredTasks with a case for 'all' and an empty default.
getFilteredTasksDefaultEmpty(elems, filter) ==
    CASE filter = "active"    -> SelectSeq(elems, LAMBDA task : ~completedOf(task))
      [] filter = "completed" -> SelectSeq(elems, LAMBDA task : completedOf(task))
      [] filter = "all"       -> elems
      [] OTHER                -> << >>

\* getFilteredTasks with the tests of the two cases exchanged.
getFilteredTasksSwapped(elems, filter) ==
    CASE filter = "active"    -> SelectSeq(elems, LAMBDA task : completedOf(task))
      [] filter = "completed" -> SelectSeq(elems, LAMBDA task : ~completedOf(task))
      [] OTHER                -> elems

\* getFilteredTasks on an array.
getFilteredTasks(elems, filter) ==
    CASE filter = "active"    -> SelectSeq(elems, LAMBDA task : ~completedOf(task))
      [] filter = "completed" -> SelectSeq(elems, LAMBDA task : completedOf(task))
      [] OTHER                -> elems

\* One <li> of renderTasks.
TaskItem(task) ==
    [ dataTaskId |-> idText(task),
      checked    |-> completedOf(task),
      toggleArg  |-> idText(task),
      text       |-> escapeHtml(textOf(task)),
      time       |-> createdAtText(task),
      deleteArg  |-> idText(task) ]

\* updateStats on an array: the two textContent values.
TotalText(elems) ==
    [ count |-> Len(elems), noun |-> IF Len(elems) = 1 THEN "task" ELSE "tasks" ]
CompletedText(elems) ==
    Len(SelectSeq(elems, LAMBDA task : completedOf(task)))

\* renderTasks on an array.
ListDisplay(elems, filter) ==
    IF Len(getFilteredTasks(elems, filter)) = 0 THEN "none" ELSE "block"
EmptyHidden(elems, filter) == Len(getFilteredTasks(elems, filter)) # 0
ListHTML(elems, filter) ==
    LET filteredTasks == getFilteredTasks(elems, filter)
    IN  [ i \in 1 .. Len(filteredTasks) |-> TaskItem(filteredTasks[i]) ]

\* renderTasks: the three writes to the list and the empty-state node.
RenderTasks(elems, filter) ==
    /\ taskListDisplay' = ListDisplay(elems, filter)
    /\ emptyStateHidden' = EmptyHidden(elems, filter)
    /\ taskListHTML' = ListHTML(elems, filter)

\* render with updateStats counting the filtered tasks.
RenderFilteredStats(elems, filter) ==
    /\ totalTasksText' = TotalText(getFilteredTasks(elems, filter))
    /\ completedTasksText' = CompletedText(getFilteredTasks(elems, filter))
    /\ RenderTasks(elems, filter)

\* render: updateStats, then renderTasks.
Render(elems, filter) ==
    /\ totalTasksText' = TotalText(elems)
    /\ completedTasksText' = CompletedText(elems)
    /\ RenderTasks(elems, filter)

(***************************************************************************)
(* Loading the page: the script runs (its last statement is the welcome    *)
(* check), then DOMContentLoaded constructs the TodoApp.                   *)
(***************************************************************************)
\* The nodes as the document has them before any render.
StaticTotalText == [ count |-> 0, noun |-> "tasks" ]
StaticCompletedText == 0
StaticListHTML == << >>
StaticListDisplay == "block"
StaticEmptyHidden == FALSE
StaticActiveButtons == { "all" }

\* What the welcome check at the end of the script throws:
\* JSON.parse(...) on text that is no JSON, or .length read on null.
WelcomeCheckError(storage) ==
    LET item == getItem(storage, StorageKey)
    IN  IF Falsy(item) THEN "none"
        ELSE IF JSONparse(item) = SyntaxError THEN "SyntaxError"
        ELSE IF JSONparse(item).type = "null" THEN "TypeError"
        ELSE "none"

\* What the constructor leaves behind, as a record of the state it sets.
Constructed(storage) ==
    LET parsed == JSONparse(getItem(storage, StorageKey))
        value  == IF Truthy(parsed) THEN parsed ELSE EmptyList
        isList == value.type = "array"
    IN  IF parsed = SyntaxError
        THEN \* line 3 throws: no instance, no listeners, no render
             [ tasks |-> JSUndefined, listenersAttached |-> FALSE,
               windowTodoApp |-> FALSE, error |-> "SyntaxError",
               total |-> StaticTotalText, completed |-> StaticCompletedText,
               html |-> StaticListHTML, display |-> StaticListDisplay,
               hidden |-> StaticEmptyHidden ]
        ELSE IF ~isList
        THEN \* updateStats throws (this.tasks.filter is not a function): the
             \* listeners are attached, window.todoApp is never assigned
             [ tasks |-> value, listenersAttached |-> TRUE,
               windowTodoApp |-> FALSE, error |-> "TypeError",
               total |-> StaticTotalText, completed |-> StaticCompletedText,
               html |-> StaticListHTML, display |-> StaticListDisplay,
               hidden |-> StaticEmptyHidden ]
        ELSE [ tasks |-> value, listenersAttached |-> TRUE,
               windowTodoApp |-> TRUE, error |-> "none",
               total |-> TotalText(value.elems),
               completed |-> CompletedText(value.elems),
               html |-> ListHTML(value.elems, "all"),
               display |-> ListDisplay(value.elems, "all"),
               hidden |-> EmptyHidden(value.elems, "all") ]

Init ==
    \E storage \in InitialStorage :
        LET app == Constructed(storage)
        IN  /\ localStorage = storage
            /\ now = StartNow
            /\ tasks = app.tasks
            /\ currentFilter = "all"
            /\ listenersAttached = app.listenersAttached
            /\ windowTodoApp = app.windowTodoApp
            /\ taskInputValue = EmptyStr
            /\ totalTasksText = app.total
            /\ completedTasksText = app.completed
            /\ taskListHTML = app.html
            /\ taskListDisplay = app.display
            /\ emptyStateHidden = app.hidden
            /\ activeButtons = StaticActiveButtons
            /\ lastCall = "load"
            /\ lastError = app.error
            /\ lastSetItem = "none"
            /\ uncaught = { WelcomeCheckError(storage), app.error } \ { "none" }
            /\ quotaErrors = 0

\* The user reloads the page: a new page session over the same localStorage.
Reload ==
    LET app == Constructed(localStorage)
    IN  /\ tasks' = app.tasks
        /\ currentFilter' = "all"
        /\ listenersAttached' = app.listenersAttached
        /\ windowTodoApp' = app.windowTodoApp
        /\ taskInputValue' = EmptyStr
        /\ totalTasksText' = app.total
        /\ completedTasksText' = app.completed
        /\ taskListHTML' = app.html
        /\ taskListDisplay' = app.display
        /\ emptyStateHidden' = app.hidden
        /\ activeButtons' = StaticActiveButtons
        /\ lastCall' = "load"
        /\ lastError' = app.error
        /\ lastSetItem' = "none"
        /\ uncaught' = { WelcomeCheckError(localStorage), app.error } \ { "none" }
        /\ quotaErrors' = 0
        /\ UNCHANGED << localStorage, now >>

(***************************************************************************)
(* Handlers.                                                               *)
(***************************************************************************)
\* A handler returns normally.
Returns(setItem) ==
    /\ lastError' = "none"
    /\ lastSetItem' = setItem
    /\ UNCHANGED uncaught

\* A handler throws; the browser reports the error.
Throws(error, setItem) ==
    /\ lastError' = error
    /\ lastSetItem' = setItem
    /\ uncaught' = uncaught \cup { error }

\* A mutation that renders without calling saveToLocalStorage().
SaveAndRenderNoWrite(newTasks) ==
    /\ Render(newTasks.elems, currentFilter)
    /\ lastError' = "none"
    /\ lastSetItem' = "none"
    /\ UNCHANGED << localStorage, uncaught, quotaErrors >>

\* saveToLocalStorage() with setItem in a try whose catch is empty: a failed
\* write is dropped and render() runs.
SaveAndRenderCatches(newTasks) ==
    \/ /\ localStorage' = [ todoTasks |-> JSONstringify(newTasks) ]
       /\ Render(newTasks.elems, currentFilter)
       /\ Returns("stored")
       /\ UNCHANGED quotaErrors
    \/ /\ quotaErrors < MaxQuotaErrors
       /\ quotaErrors' = quotaErrors + 1
       /\ Render(newTasks.elems, currentFilter)
       /\ Returns("failed")
       /\ UNCHANGED localStorage

\* saveToLocalStorage() followed by render(), the tail of every mutation.
\* setItem either stores the text or throws QuotaExceededError, and then
\* render() is not reached.
SaveAndRender(newTasks) ==
    \/ /\ localStorage' = [ todoTasks |-> JSONstringify(newTasks) ]
       /\ Render(newTasks.elems, currentFilter)
       /\ Returns("stored")
       /\ UNCHANGED quotaErrors
    \/ /\ quotaErrors < MaxQuotaErrors
       /\ quotaErrors' = quotaErrors + 1
       /\ Throws("QuotaExceededError", "failed")
       /\ UNCHANGED << localStorage, statVars, listVars >>

\* The task addTask builds from the trimmed text.
NewTask(taskText) == Task(toString(now), taskText, FALSE, toLocaleTimeString(now))

\* push instead of unshift: the new task goes to the end.
Push(elems, newTask) == elems \o << newTask >>

\* unshift.
Unshift(elems, newTask) == << newTask >> \o elems

\* addTask(), run by a click on the add button or by Enter in the input,
\* with value in the input.
AddTask(value) ==
    /\ listenersAttached
    /\ lastCall' = "addTask"
    /\ LET taskText == trim(value)
       IN  IF taskText = EmptyStr
           THEN \* focus the input and return
                /\ taskInputValue' = value
                /\ Returns("none")
                /\ UNCHANGED << storeVars, localStorage, now, pageVars, statVars,
                                listVars, activeButtons, quotaErrors >>
           ELSE IF tasks.type # "array"
           THEN \* this.tasks.unshift is not a function
                /\ taskInputValue' = value
                /\ Throws("TypeError", "none")
                /\ UNCHANGED << storeVars, localStorage, now, pageVars, statVars,
                                listVars, activeButtons, quotaErrors >>
           ELSE /\ Len(tasks.elems) < MaxTasks
                /\ tasks' = JSArray(Unshift(tasks.elems, NewTask(taskText)))
                /\ taskInputValue' = EmptyStr
                /\ SaveAndRender(tasks')
                /\ UNCHANGED << currentFilter, now, pageVars, activeButtons >>

\* this.tasks.find(t => t.id === taskId): the index of the first match, 0 if
\* there is none.
FindIndex(elems, taskId) ==
    IF \E i \in 1 .. Len(elems) : idEquals(elems[i], taskId)
    THEN CHOOSE i \in 1 .. Len(elems) :
            /\ idEquals(elems[i], taskId)
            /\ \A j \in 1 .. (i - 1) : ~idEquals(elems[j], taskId)
    ELSE 0

\* task.completed = true instead of the negation.
ToggledAlwaysTrue(elems, i) ==
    [ elems EXCEPT ![i] = [ @ EXCEPT !.completed = TRUE ] ]

\* task.completed = !task.completed on the element at index i.
Toggled(elems, i) ==
    [ elems EXCEPT ![i] = [ @ EXCEPT !.completed = ~@ ] ]

\* toggleTask with saveToLocalStorage() and render() moved out of the if.
ToggleTaskAlwaysSaves(taskId) ==
    /\ windowTodoApp
    /\ lastCall' = "toggleTask"
    /\ LET i == FindIndex(tasks.elems, taskId)
       IN  tasks' = IF i # 0 THEN JSArray(Toggled(tasks.elems, i)) ELSE tasks
    /\ SaveAndRender(tasks')
    /\ UNCHANGED << currentFilter, now, pageVars, taskInputValue, activeButtons >>

\* toggleTask(taskId), called from the onclick of a rendered checkbox.
ToggleTask(taskId) ==
    /\ windowTodoApp
    /\ lastCall' = "toggleTask"
    /\ LET i == FindIndex(tasks.elems, taskId)
       IN  IF i # 0
           THEN /\ tasks' = JSArray(Toggled(tasks.elems, i))
                /\ SaveAndRender(tasks')
                /\ UNCHANGED << currentFilter, now, pageVars, taskInputValue,
                                activeButtons >>
           ELSE /\ Returns("none")
                /\ UNCHANGED << storeVars, localStorage, now, pageVars, domVars,
                                quotaErrors >>

\* Removal by this.tasks.splice(this.tasks.findIndex(...), 1): with no match
\* the index is -1 and splice removes the last element.
WithoutIdBySplice(elems, taskId) ==
    IF \E i \in 1 .. Len(elems) : idEquals(elems[i], taskId)
    THEN LET i == FindIndex(elems, taskId)
         IN  SubSeq(elems, 1, i - 1) \o SubSeq(elems, i + 1, Len(elems))
    ELSE SubSeq(elems, 1, Len(elems) - 1)

\* this.tasks.filter(t => t.id !== taskId).
WithoutId(elems, taskId) == SelectSeq(elems, LAMBDA t : ~idEquals(t, taskId))

\* deleteTask(taskId), called from the onclick of a rendered delete button.
DeleteTask(taskId) ==
    /\ windowTodoApp
    /\ lastCall' = "deleteTask"
    /\ tasks' = JSArray(WithoutId(tasks.elems, taskId))
    /\ SaveAndRender(tasks')
    /\ UNCHANGED << currentFilter, now, pageVars, taskInputValue, activeButtons >>

\* Clearing that unchecks the completed tasks instead of removing them.
WithoutCompletedUnchecks(elems) ==
    [ i \in 1 .. Len(elems) |->
        IF elems[i].type = "object" THEN [ elems[i] EXCEPT !.completed = FALSE ]
        ELSE elems[i] ]

\* The filter with its test the wrong way round: task => task.completed.
WithoutCompletedInverted(elems) == SelectSeq(elems, LAMBDA task : completedOf(task))

\* tasks.filter(task => !task.completed).
WithoutCompleted(elems) == SelectSeq(elems, LAMBDA task : ~completedOf(task))

\* The keydown listener on Ctrl/Cmd+Shift+C: clear the completed tasks, if
\* window.todoApp exists.
ClearCompleted ==
    /\ lastCall' = "clearCompleted"
    /\ IF windowTodoApp
       THEN /\ tasks' = JSArray(WithoutCompleted(tasks.elems))
            /\ SaveAndRender(tasks')
            /\ UNCHANGED << currentFilter, now, pageVars, taskInputValue,
                            activeButtons >>
       ELSE /\ Returns("none")
            /\ UNCHANGED << storeVars, localStorage, now, pageVars, domVars,
                            quotaErrors >>

\* updateFilterButtons: a button is active iff its data-filter equals
\* this.currentFilter.
ActiveButtons(filter) == { b \in FilterNames : b = filter }

\* The click listener calling saveToLocalStorage() and render() as the
\* mutations do, instead of renderTasks() alone.
FilterClickSaves(value) ==
    /\ listenersAttached
    /\ lastCall' = "filterClick"
    /\ currentFilter' = value
    /\ activeButtons' = ActiveButtons(value)
    /\ IF tasks.type = "array"
       THEN /\ localStorage' = [ todoTasks |-> JSONstringify(tasks) ]
            /\ Render(tasks.elems, value)
            /\ Returns("stored")
       ELSE /\ Throws("TypeError", "none")
            /\ UNCHANGED << localStorage, statVars, listVars >>
    /\ UNCHANGED << tasks, now, pageVars, taskInputValue, quotaErrors >>

\* The click listener of the filter buttons, with e.target.dataset.filter =
\* value: sets the filter, marks the buttons, renders the list (not the
\* stats).
FilterClick(value) ==
    /\ listenersAttached
    /\ lastCall' = "filterClick"
    /\ currentFilter' = value
    /\ activeButtons' = ActiveButtons(value)
    /\ IF tasks.type = "array"
       THEN /\ RenderTasks(tasks.elems, value)
            /\ Returns("none")
       ELSE IF value \in { "active", "completed" }
       THEN \* getFilteredTasks: this.tasks.filter is not a function
            /\ Throws("TypeError", "none")
            /\ UNCHANGED listVars
       ELSE \* filteredTasks.length is not 0; filteredTasks.map is not a function
            /\ taskListDisplay' = "block"
            /\ emptyStateHidden' = TRUE
            /\ Throws("TypeError", "none")
            /\ UNCHANGED taskListHTML
    /\ UNCHANGED << tasks, localStorage, now, pageVars, taskInputValue, statVars,
                    quotaErrors >>

\* A millisecond passes.
Tick ==
    /\ now < MaxNow
    /\ now' = now + 1
    /\ UNCHANGED << storeVars, localStorage, pageVars, domVars, lastCall,
                    lastError, lastSetItem, uncaught, quotaErrors >>

Next ==
    \/ \E value \in InputTexts : AddTask(value)
    \/ \E taskId \in TaskIds : ToggleTask(taskId)
    \/ \E taskId \in TaskIds : DeleteTask(taskId)
    \/ ClearCompleted
    \/ \E value \in FilterEventValues : FilterClick(value)
    \/ Tick
    \/ Reload

Spec == Init /\ [][Next]_vars

(***************************************************************************)
(* Vocabulary of the properties.                                           *)
(***************************************************************************)
\* A store exists: the constructor completed and window.todoApp is set.
StoreRunning == windowTodoApp

\* The unfiltered list, its length and its completed count.
AllView == getFilteredTasks(tasks.elems, "all")
Total == Len(tasks.elems)
CompletedCount == Len(getFilteredTasks(tasks.elems, "completed"))

\* No write has failed in this page session.
NoWriteFailed == "QuotaExceededError" \notin uncaught

\* The stored value is present but is not a serialized array of task objects.
Malformed(storage) ==
    /\ StorageKey \in DOMAIN storage
    /\ LET parsed == JSONparseText(storage[StorageKey])
       IN  \/ parsed.type # "array"
           \/ \E i \in 1 .. Len(parsed.elems) : parsed.elems[i].type # "object"

(***************************************************************************)
(* C1.  Persistence round trip: whenever the latest mutation stored its    *)
(* list, or no write has failed since the page was loaded, a fresh store   *)
(* constructed from the value under 'todoTasks' has the same 'all' view as *)
(* the running store, task for task and in the same order.                 *)
(***************************************************************************)
FreshStore == Constructed(localStorage)

PersistenceRoundTrip ==
    (StoreRunning /\ (lastSetItem = "stored" \/ NoWriteFailed))
        => /\ FreshStore.windowTodoApp
           /\ getFilteredTasks(FreshStore.tasks.elems, "all") = AllView

\* A toggle, an add and a write have happened, and the list mixes completed
\* and active tasks.
PersistenceRoundTripWitness ==
    /\ StoreRunning
    /\ lastSetItem = "stored"
    /\ Total >= 2
    /\ CompletedCount >= 1
    /\ CompletedCount < Total

(***************************************************************************)
(* C2.  A page loaded over a malformed stored value starts with an empty   *)
(* list and reports no error.                                              *)
(***************************************************************************)
MalformedLoadsEmpty ==
    (lastCall = "load" /\ Malformed(localStorage))
        => /\ tasks = EmptyList
           /\ StoreRunning
           /\ uncaught = { }

(***************************************************************************)
(* C3.  No two tasks of the list have the same id.                         *)
(***************************************************************************)
UniqueIds ==
    tasks.type = "array" =>
        \A i, j \in 1 .. Total :
            (i # j /\ tasks.elems[i].type = "object" /\ tasks.elems[j].type = "object")
                => tasks.elems[i].id # tasks.elems[j].id

(***************************************************************************)
(* C4.  addTask with a text that is not blank adds exactly one task, not   *)
(* completed, at the head of the list, and keeps the earlier tasks as they *)
(* were and in their order.                                                *)
(***************************************************************************)
IsBlank(value) == \A i \in 1 .. Len(value) : IsWhiteSpace(value[i])

AddPrepends ==
    [][ \A value \in InputTexts :
            (AddTask(value) /\ ~IsBlank(value))
                => /\ tasks.type = "array"
                   /\ tasks'.type = "array"
                   /\ Total' = Total + 1
                   /\ Head(tasks'.elems).type = "object"
                   /\ Head(tasks'.elems).completed = FALSE
                   /\ Tail(tasks'.elems) = tasks.elems ]_vars

(***************************************************************************)
(* C5.  addTask with an empty or white-space-only text changes neither the *)
(* list, nor its length, nor the filter, nor the stored value, and calls   *)
(* setItem not at all.                                                     *)
(***************************************************************************)
BlankAddIsNoOp ==
    [][ \A value \in InputTexts :
            (AddTask(value) /\ IsBlank(value))
                => /\ UNCHANGED << tasks, currentFilter, localStorage >>
                   /\ lastSetItem' = "none"
                   /\ lastError' = "none" ]_vars

\* addTask has just returned without a write, on a running store that holds
\* tasks, with a white-space-only text left in the input.
BlankAddWitness ==
    /\ StoreRunning
    /\ lastCall = "addTask"
    /\ lastSetItem = "none"
    /\ taskInputValue # EmptyStr
    /\ Total >= 1

(***************************************************************************)
(* C6.  deleteTask with the id of a task of the list removes that task and *)
(* no other: the length drops by one and the others stay as they were, in  *)
(* their order.                                                            *)
(***************************************************************************)
HasId(elems, taskId) == \E i \in 1 .. Len(elems) : idEquals(elems[i], taskId)

RemoveAt(elems, i) == SubSeq(elems, 1, i - 1) \o SubSeq(elems, i + 1, Len(elems))

DeleteRemovesOne ==
    [][ \A taskId \in TaskIds :
            (DeleteTask(taskId) /\ HasId(tasks.elems, taskId))
                => /\ Total' = Total - 1
                   /\ tasks'.elems = RemoveAt(tasks.elems, FindIndex(tasks.elems, taskId))
      ]_vars

(***************************************************************************)
(* C7.  deleteTask with an id no task has leaves the list as it was:       *)
(* length, fields and order.                                               *)
(***************************************************************************)
DeleteAbsentKeepsList ==
    [][ \A taskId \in TaskIds :
            (DeleteTask(taskId) /\ ~HasId(tasks.elems, taskId))
                => tasks' = tasks ]_vars

\* deleteTask has just run and the list is still full, so the id it was
\* called with was not in the list.
DeleteAbsentWitness ==
    /\ StoreRunning
    /\ lastCall = "deleteTask"
    /\ Total = MaxTasks

(***************************************************************************)
(* C8.  After toggleTask(t.id) for a task t of the list, a second          *)
(* toggleTask(t.id) finds a task and gives back the list as it was before  *)
(* the first.                                                              *)
(***************************************************************************)
DoubleToggleRestores ==
    [][ \A taskId \in TaskIds :
            (ToggleTask(taskId) /\ HasId(tasks.elems, taskId))
                => LET j == FindIndex(tasks'.elems, taskId)
                   IN  /\ j # 0
                       /\ Toggled(tasks'.elems, j) = tasks.elems ]_vars

\* toggleTask has just flipped a task: it reached setItem, and a task is
\* completed.
DoubleToggleWitness ==
    /\ StoreRunning
    /\ lastCall = "toggleTask"
    /\ lastSetItem # "none"
    /\ CompletedCount >= 1
    /\ Total >= 2

(***************************************************************************)
(* C9.  toggleTask keeps the number and the order of the tasks.  With an   *)
(* id no task has, it changes nothing in memory and does not call setItem. *)
(* With the id of a task, it calls setItem, and when setItem returns, the  *)
(* stored value is the updated list.                                       *)
(***************************************************************************)
\* The list a page loaded over storage would start with.
StoredList(storage) == Constructed(storage).tasks

SameButCompleted(a, b) ==
    /\ a.type = b.type
    /\ a.type = "object" => /\ a.id = b.id
                            /\ a.text = b.text
                            /\ a.createdAt = b.createdAt
    /\ a.type # "object" => a = b

ToggleFrame ==
    [][ \A taskId \in TaskIds :
            ToggleTask(taskId)
                => /\ Total' = Total
                   /\ \A i \in 1 .. Total :
                          SameButCompleted(tasks.elems[i], tasks'.elems[i])
                   /\ IF HasId(tasks.elems, taskId)
                      THEN /\ lastSetItem' # "none"
                           /\ lastError' = "none"
                                  => /\ lastSetItem' = "stored"
                                     /\ StoredList(localStorage') = tasks'
                      ELSE /\ UNCHANGED << tasks, localStorage >>
                           /\ lastSetItem' = "none" ]_vars

\* toggleTask has just returned without a write on a list of several tasks:
\* the id was not found.
ToggleFrameWitness ==
    /\ StoreRunning
    /\ lastCall = "toggleTask"
    /\ lastSetItem = "none"
    /\ Total >= 2

(***************************************************************************)
(* C10.  After clear-completed on a running store, the 'completed' view is *)
(* empty, the completed count is 0, the list is exactly the tasks that     *)
(* were not completed, in their order, and when setItem returns, the       *)
(* stored value is that list.                                              *)
(***************************************************************************)
ClearCompletedClears ==
    [][ (ClearCompleted /\ StoreRunning)
            => /\ getFilteredTasks(tasks'.elems, "completed") = << >>
               /\ CompletedCount' = 0
               /\ tasks'.elems = getFilteredTasks(tasks.elems, "active")
               /\ lastSetItem' # "none"
               /\ lastError' = "none"
                      => /\ lastSetItem' = "stored"
                         /\ StoredList(localStorage') = tasks' ]_vars

\* clear-completed has just stored a list that still holds tasks, all of
\* them active.
ClearCompletedWitness ==
    /\ StoreRunning
    /\ lastCall = "clearCompleted"
    /\ lastSetItem = "stored"
    /\ Total >= 2
    /\ CompletedCount = 0

(***************************************************************************)
(* C11.  On every list the store holds and for each of the three filters,  *)
(* the filtered view is the tasks that satisfy the filter's predicate, in  *)
(* list order; the 'active' and the 'completed' view share no task and     *)
(* together hold exactly the tasks of the 'all' view.                      *)
(***************************************************************************)
\* a is b with some elements left out, the others in their order.
RECURSIVE IsSubseq(_, _)
IsSubseq(a, b) ==
    IF a = << >> THEN TRUE
    ELSE IF b = << >> THEN FALSE
    ELSE IF Head(a) = Head(b) THEN IsSubseq(Tail(a), Tail(b))
    ELSE IsSubseq(a, Tail(b))

\* The predicate of a filter.
Satisfies(task, f) ==
    CASE f = "active"    -> ~completedOf(task)
      [] f = "completed" -> completedOf(task)
      [] f = "all"       -> TRUE

Range(seq) == { seq[i] : i \in 1 .. Len(seq) }

ViewIsExact(elems, f) ==
    LET view == getFilteredTasks(elems, f)
    IN  /\ \A i \in 1 .. Len(view) : Satisfies(view[i], f)
        /\ IsSubseq(view, elems)
        /\ Len(view) = Cardinality({ i \in 1 .. Len(elems) : Satisfies(elems[i], f) })

FilterCorrect ==
    tasks.type = "array" =>
        /\ \A f \in FilterNames : ViewIsExact(tasks.elems, f)
        /\ Range(getFilteredTasks(tasks.elems, "active"))
               \cap Range(getFilteredTasks(tasks.elems, "completed")) = { }
        /\ Len(getFilteredTasks(tasks.elems, "active"))
               + Len(getFilteredTasks(tasks.elems, "completed"))
                   = Len(getFilteredTasks(tasks.elems, "all"))
        /\ getFilteredTasks(tasks.elems, "all") = tasks.elems

\* The 'active' filter is on, over a full list that mixes completed and
\* active tasks, and the list shown leaves the completed ones out.
FilterCorrectWitness ==
    /\ StoreRunning
    /\ currentFilter = "active"
    /\ lastCall = "filterClick"
    /\ Total = MaxTasks
    /\ CompletedCount >= 1
    /\ Len(taskListHTML) = Total - CompletedCount
    /\ Len(taskListHTML) >= 1

(***************************************************************************)
(* C12.  The list is in newest-first order of creation.  A step either     *)
(* puts one new task in front of the tasks that were there, or keeps a     *)
(* sub-list of them in their order; so a task added later precedes every   *)
(* surviving task added earlier.  As the ids are clock readings, they      *)
(* never grow from the head of the list to its end.                        *)
(***************************************************************************)
DigitValue(c) == CHOOSE d \in 0 .. 9 : DigitChar(d) = c

\* The number a string of decimal digits denotes.
RECURSIVE NumberOf(_)
NumberOf(digits) ==
    IF digits = EmptyStr THEN 0
    ELSE 10 * NumberOf(SubSeq(digits, 1, Len(digits) - 1)) + DigitValue(digits[Len(digits)])

\* The elements with their completed flags put aside.
Unflagged(elems) ==
    [ i \in 1 .. Len(elems) |->
        IF elems[i].type = "object" THEN [ elems[i] EXCEPT !.completed = FALSE ]
        ELSE elems[i] ]

IdsNeverGrow(elems) ==
    \A i, j \in 1 .. Len(elems) :
        (i < j /\ elems[i].type = "object" /\ elems[j].type = "object")
            => NumberOf(elems[i].id) >= NumberOf(elems[j].id)

NewestFirst ==
    /\ [](tasks.type = "array" => IdsNeverGrow(tasks.elems))
    /\ [][ (tasks.type = "array" /\ tasks'.type = "array" /\ lastCall' # "load")
              => \/ IsSubseq(Unflagged(tasks'.elems), Unflagged(tasks.elems))
                 \/ /\ lastCall' = "addTask"
                    /\ Len(tasks'.elems) = Len(tasks.elems) + 1
                    /\ Tail(tasks'.elems) = tasks.elems ]_vars

\* Three tasks created at three clock readings: the one loaded from the
\* stored list is last, the one just added is first.
NewestFirstWitness ==
    /\ StoreRunning
    /\ lastCall = "addTask"
    /\ lastError = "none"
    /\ Total = MaxTasks
    /\ idText(tasks.elems[1]) = toString(MaxNow)
    /\ idText(tasks.elems[2]) = toString(StartNow)
    /\ idText(tasks.elems[3]) = toString(StartNow - 1)

(***************************************************************************)
(* C13.  The two counts are taken over the whole list, whatever the        *)
(* filter: the counts a completed mutation shows are the length of the     *)
(* list and the number of its completed tasks; a filter click changes      *)
(* neither the list nor the counts shown; and the rendering of a mutation, *)
(* which reads the view, leaves the filter as it was and the list as the   *)
(* mutation made it.                                                       *)
(***************************************************************************)
NumberCompleted(elems) == Cardinality({ i \in 1 .. Len(elems) : completedOf(elems[i]) })

\* The last step was a mutation that ran to its end, render() included.
MutationRendered == StoreRunning /\ lastSetItem = "stored" /\ lastError = "none"

CountsIgnoreFilter ==
    /\ [](MutationRendered
            => /\ totalTasksText.count = Len(tasks.elems)
               /\ completedTasksText = NumberCompleted(tasks.elems))
    /\ [][ \A value \in FilterEventValues :
             FilterClick(value)
                => /\ tasks' = tasks
                   /\ totalTasksText' = totalTasksText
                   /\ completedTasksText' = completedTasksText ]_vars
    /\ [][ lastCall' \in { "addTask", "toggleTask", "deleteTask", "clearCompleted" }
                => currentFilter' = currentFilter ]_vars

\* A task was completed while the 'active' filter hides it: the list shown
\* is shorter than the total shown, and the completed count is not zero.
CountsIgnoreFilterWitness ==
    /\ MutationRendered
    /\ lastCall = "toggleTask"
    /\ currentFilter = "active"
    /\ Total >= 2
    /\ completedTasksText >= 1
    /\ Len(taskListHTML) < totalTasksText.count

(***************************************************************************)
(* C14.  A filter click that carries a value other than 'all', 'active'    *)
(* and 'completed' shows the whole list of the store, as 'all' does: the   *)
(* view under the value set is the list itself, and the list node, its     *)
(* display and the empty-state node are what they are under 'all'.         *)
(***************************************************************************)
UnknownFilterValues == FilterEventValues \ FilterNames

UnknownFilterShowsAll ==
    [][ \A value \in UnknownFilterValues :
            (FilterClick(value) /\ tasks.type = "array")
                => /\ lastError' = "none"
                   /\ getFilteredTasks(tasks'.elems, currentFilter') = tasks'.elems
                   /\ Len(taskListHTML') = Len(tasks'.elems)
                   /\ taskListHTML' = ListHTML(tasks'.elems, "all")
                   /\ taskListDisplay' = ListDisplay(tasks'.elems, "all")
                   /\ emptyStateHidden' = EmptyHidden(tasks'.elems, "all") ]_vars

\* The click came while 'completed' hid an active task: after it the list
\* shown holds every task, the active ones as well as the completed ones.
UnknownFilterShowsAllWitness ==
    /\ StoreRunning
    /\ lastCall = "filterClick"
    /\ currentFilter \in UnknownFilterValues
    /\ Total >= 2
    /\ CompletedCount >= 1
    /\ CompletedCount < Total
    /\ Len(taskListHTML) = Total

(***************************************************************************)
(* C15.  A page loaded with nothing stored under 'todoTasks' starts a      *)
(* store with the empty list, both counts 0 and the filter 'all', with no  *)
(* error and with no write to localStorage.                                *)
(***************************************************************************)
AbsentLoadsEmpty ==
    (lastCall = "load" /\ localStorage = NoItems)
        => /\ StoreRunning
           /\ tasks = EmptyList
           /\ totalTasksText.count = 0
           /\ completedTasksText = 0
           /\ currentFilter = "all"
           /\ lastError = "none"
           /\ uncaught = { }
           /\ lastSetItem = "none"

\* The page has loaded over an empty localStorage and the constructor has
\* rendered the empty list.
AbsentLoadsEmptyWitness ==
    /\ lastCall = "load"
    /\ localStorage = NoItems
    /\ StoreRunning
    /\ taskListHTML = << >>
    /\ taskListDisplay = "none"
    /\ ~emptyStateHidden

(***************************************************************************)
(* C16.  When setItem fails during a mutation, the handler throws the      *)
(* error to its caller, writes nothing (there is no second attempt), and   *)
(* the list in memory keeps the mutation.  So whenever the list in memory  *)
(* differs from the list the stored value holds, an error of a failed      *)
(* write has been reported in this page session.                           *)
(***************************************************************************)
WriteFailureSurfaced ==
    /\ [](StoredList(localStorage) # tasks => "QuotaExceededError" \in uncaught)
    /\ [][ (lastSetItem' = "failed" /\ now' = now)
              => /\ lastError' = "QuotaExceededError"
                 /\ "QuotaExceededError" \in uncaught'
                 /\ localStorage' = localStorage
                 /\ lastCall' = "addTask"
                        => /\ Len(tasks'.elems) = Len(tasks.elems) + 1
                           /\ Tail(tasks'.elems) = tasks.elems
                 /\ lastCall' = "toggleTask"
                        => /\ tasks' # tasks
                           /\ Unflagged(tasks'.elems) = Unflagged(tasks.elems)
                 /\ lastCall' = "deleteTask"
                        => \E taskId \in TaskIds :
                               tasks'.elems
                                   = SelectSeq(tasks.elems, LAMBDA t : ~idEquals(t, taskId))
                 /\ lastCall' = "clearCompleted"
                        => /\ NumberCompleted(tasks'.elems) = 0
                           /\ IsSubseq(tasks'.elems, tasks.elems) ]_vars

\* An addTask whose write failed: the list in memory has the new task, the
\* stored list has not, and the error has been reported.
WriteFailureSurfacedWitness ==
    /\ StoreRunning
    /\ lastCall = "addTask"
    /\ lastSetItem = "failed"
    /\ "QuotaExceededError" \in uncaught
    /\ StoredList(localStorage).type = "array"
    /\ Len(StoredList(localStorage).elems) + 1 = Total

(***************************************************************************)
(* C17.  Between two handlers the page shows the store: the list node      *)
(* holds the items of the view under the current filter, the two count     *)
(* nodes hold the length of the whole list and the number of its completed *)
(* tasks, and the empty-state node is shown exactly when the view is       *)
(* empty.                                                                  *)
(***************************************************************************)
DisplayMatchesState ==
    StoreRunning
        => /\ taskListHTML = ListHTML(tasks.elems, currentFilter)
           /\ totalTasksText.count = Len(tasks.elems)
           /\ completedTasksText = NumberCompleted(tasks.elems)
           /\ ~emptyStateHidden <=> (getFilteredTasks(tasks.elems, currentFilter) = << >>)
           /\ (taskListDisplay = "none") <=> (getFilteredTasks(tasks.elems, currentFilter) = << >>)

(***************************************************************************)
(* C18.  In every state the filter of the store is 'all', 'active' or      *)
(* 'completed', whatever value the filter clicks carried.                  *)
(***************************************************************************)
FilterIsKnown == currentFilter \in FilterNames

(***************************************************************************)
(* C19.  The filter is transient.  A filter click leaves the list and the  *)
(* stored value as they were and calls no setItem; and after every page    *)
(* load the filter is 'all', whatever it was before the load.              *)
(***************************************************************************)
FilterIsTransient ==
    /\ [][ \A value \in FilterEventValues :
             FilterClick(value)
                => /\ tasks' = tasks
                   /\ localStorage' = localStorage
                   /\ lastSetItem' = "none" ]_vars
    /\ [][ Reload => (currentFilter' = "all" /\ activeButtons' = { "all" }) ]_vars
    /\ [](lastCall = "load" => currentFilter = "all")

\* A click has set the filter to 'completed' over a stored list with a
\* completed task; nothing was written by it.
FilterIsTransientWitness ==
    /\ StoreRunning
    /\ lastCall = "filterClick"
    /\ currentFilter = "completed"
    /\ lastSetItem = "none"
    /\ localStorage # NoItems
    /\ StoredList(localStorage) = tasks
    /\ CompletedCount >= 1
    /\ Len(taskListHTML) = CompletedCount

(***************************************************************************)
(* C20.  A task of the list keeps its id, its text and its createdAt, and  *)
(* its completed flag changes only by toggleTask called with its id.  A    *)
(* toggleTask step keeps every element but for the flags, and changes the  *)
(* flag only of an element with the id given; a reload after writes that   *)
(* all succeeded gives the same list; every other step leaves a sub-list   *)
(* of the very same elements, behind at most one new task.  The text of a  *)
(* task is the trimmed input as typed: rendering escapes a copy.           *)
(***************************************************************************)
\* The texts that can be in the list: the trimmed inputs and the text of the
\* task of the initial stored lists.
TypedTexts == ({ trim(value) : value \in InputTexts } \ { EmptyStr }) \cup { OldTask(FALSE).text }

TaskFieldsFixed ==
    /\ [](tasks.type = "array"
            => \A i \in 1 .. Len(tasks.elems) :
                  tasks.elems[i].type = "object" => tasks.elems[i].text \in TypedTexts)
    /\ [][ (tasks.type = "array" /\ tasks'.type = "array")
              => \/ \E taskId \in TaskIds :
                       /\ ToggleTask(taskId)
                       /\ Len(tasks'.elems) = Len(tasks.elems)
                       /\ \A i \in 1 .. Len(tasks.elems) :
                             /\ SameButCompleted(tasks.elems[i], tasks'.elems[i])
                             /\ tasks'.elems[i] # tasks.elems[i]
                                    => idEquals(tasks.elems[i], taskId)
                 \/ /\ Reload
                    /\ NoWriteFailed => tasks' = tasks
                 \/ tasks' = tasks
                 \/ /\ lastCall' \notin { "toggleTask", "load" }
                    /\ \/ IsSubseq(tasks'.elems, tasks.elems)
                       \/ /\ tasks'.elems # << >>
                          /\ Tail(tasks'.elems) = tasks.elems ]_vars

\* The middle one of three tasks has been completed by toggleTask; its
\* neighbours are as they were and its text is the text typed, not escaped.
TaskFieldsFixedWitness ==
    /\ StoreRunning
    /\ lastCall = "toggleTask"
    /\ lastSetItem = "stored"
    /\ Total = MaxTasks
    /\ ~completedOf(tasks.elems[1])
    /\ completedOf(tasks.elems[2])
    /\ ~completedOf(tasks.elems[3])
    /\ textOf(tasks.elems[2]) = << "<", "b" >>
    /\ taskListHTML[2].text = escapeHtml(<< "<", "b" >>)
    /\ currentFilter = "all"

====
